---------------------------- MODULE Spec2Model ----------------------------
(***************************************************************************)
(* Turn synchronisation of rotchess-ggez (src/src/app.rs): the wire codec  *)
(* (ser_thing / de_thing), the local dispatch (try_send_event), the remote *)
(* reconciliation (update) and the board reset keys, for two peers joined  *)
(* by the sfn_tpn netcode interface.                                       *)
(*                                                                         *)
(* An f32 is modelled by its bit pattern read as a 32-bit two's complement *)
(* integer (f.to_bits() as i32), a byte by 0..255.                         *)
(***************************************************************************)
EXTENDS Integers, Sequences, FiniteSets, TLC

VARIABLES
    chess,          \* App.chess of each peer: the engine (layout, history, cursor, selection)
    chess_layout,   \* App.chess_layout of each peer
    turn_phase,     \* App.turn_phase of each peer
    my_turn,        \* netcode.my_turn() of each peer
    net,            \* buffers sent to a peer and still on their way
    inbox,          \* buffers that try_recv_turn of a peer can return
    panicked,       \* "no", or why the peer's process aborted
    debug_assertions, \* whether the build compiles debug_assert! in
    due,            \* per peer, the travel (Move or Rotate) its sub-phase order lets it send next
    last,           \* the last handler call: who, what, the state it found, what it did in order
    c_in,           \* codec run: the Option<ThingHappened> given to ser_thing
    c_buf,          \* codec run: ser_thing(c_in)
    c_out,          \* codec run: de_thing(c_buf)
    c_buf2,         \* codec run: ser_thing(c_out)
    c_pc            \* codec run: position in ser -> de -> ser

vars == <<chess, chess_layout, turn_phase, my_turn, net, inbox, panicked, debug_assertions,
          due, last, c_in, c_buf, c_out, c_buf2, c_pc>>

protoVars == <<chess, chess_layout, turn_phase, my_turn, net, inbox, panicked,
               debug_assertions, due, last>>

codecVars == <<c_in, c_buf, c_out, c_buf2, c_pc>>

----------------------------------------------------------------------------
(* Bounds of the model. *)

\* Longest turn history an engine is let to grow to.
MaxTurns == 2

(* Program constants. *)

\* The fixed size of one turn on the wire.
TURN_SIZE == 10

\* The off-board coordinate of the deselecting click.
NARNIA == -1000

U8_MAX == 255

----------------------------------------------------------------------------
(* Values. *)

Peers == {"A", "B"}

Other(p) == IF p = "A" THEN "B" ELSE "A"

Phases == {"Move", "Rotate", "Wait"}

\* Piece indices (usize) the runs draw from; 256 does not fit a u8.
PieceIdx == {0, 2, 255}

PieceIdxTooBig == {256}

\* f32 bit patterns the runs draw from: 0.0, 91.246876, 11.352279, -1000.0
\* and a NaN.
F32 == {0, 1119256167, 1094034160, -998637568, 2143289344}

NoThing == [tag |-> "None"]

NavTags == {"FirstTurn", "PrevTurn", "NextTurn", "LastTurn"}

NavThings == {[tag |-> t] : t \in NavTags}

RotateThing(i, r) == [tag |-> "Rotate", idx |-> i, r |-> r]

MoveThing(i, x, y) == [tag |-> "Move", idx |-> i, x |-> x, y |-> y]

IsNav(t) == t.tag \in NavTags

\* de_thing's panic!("Received malformed data from opponent.")
Malformed == [tag |-> "Panic"]

\* ser_thing's failed try_into().expect(..): no buffer is produced
SerPanic == <<>>

----------------------------------------------------------------------------
(* The wire codec. *)

Pow2(n) == 2 ^ n

\* f32::to_be_bytes: most significant byte first
to_be_bytes(f) ==
    << (f \div Pow2(24)) % 256,
       (f \div Pow2(16)) % 256,
       (f \div Pow2(8)) % 256,
       f % 256 >>

\* f32::from_be_bytes
from_be_bytes(b) ==
    (IF b[1] >= 128 THEN b[1] - 256 ELSE b[1]) * Pow2(24)
        + b[2] * Pow2(16) + b[3] * Pow2(8) + b[4]

\* [0; TURN_SIZE]
Zeros == [k \in 1..TURN_SIZE |-> 0]

\* ans[from..to].copy_from_slice(bytes), with Rust's 0-based half-open range
CopyIn(ans, from, to, bytes) ==
    [k \in 1..Len(ans) |->
        IF from < k /\ k <= to THEN bytes[k - from] ELSE ans[k]]

\* a mutant of ser_thing: the floats are written least significant byte first
ser_thing_le(thing) ==
    LET rev(b) == <<b[4], b[3], b[2], b[1]>>
    IN CASE thing.tag = "FirstTurn" -> [Zeros EXCEPT ![1] = 1]
         [] thing.tag = "PrevTurn" -> [Zeros EXCEPT ![1] = 2]
         [] thing.tag = "NextTurn" -> [Zeros EXCEPT ![1] = 3]
         [] thing.tag = "LastTurn" -> [Zeros EXCEPT ![1] = 4]
         [] thing.tag = "Rotate" ->
              IF thing.idx > U8_MAX THEN SerPanic
              ELSE CopyIn([Zeros EXCEPT ![1] = 5, ![2] = thing.idx],
                          2, 6, rev(to_be_bytes(thing.r)))
         [] thing.tag = "Move" ->
              IF thing.idx > U8_MAX THEN SerPanic
              ELSE CopyIn(CopyIn([Zeros EXCEPT ![1] = 6, ![2] = thing.idx],
                                 2, 6, rev(to_be_bytes(thing.x))),
                          6, 10, rev(to_be_bytes(thing.y)))
         [] thing.tag = "None" -> [Zeros EXCEPT ![1] = 7]

\* a mutant of ser_thing: the index is cut to its low byte (`as u8`)
ser_thing_truncates(thing) ==
    CASE thing.tag = "FirstTurn" -> [Zeros EXCEPT ![1] = 1]
      [] thing.tag = "PrevTurn" -> [Zeros EXCEPT ![1] = 2]
      [] thing.tag = "NextTurn" -> [Zeros EXCEPT ![1] = 3]
      [] thing.tag = "LastTurn" -> [Zeros EXCEPT ![1] = 4]
      [] thing.tag = "Rotate" ->
           CopyIn([Zeros EXCEPT ![1] = 5, ![2] = thing.idx % 256],
                  2, 6, to_be_bytes(thing.r))
      [] thing.tag = "Move" ->
           CopyIn(CopyIn([Zeros EXCEPT ![1] = 6, ![2] = thing.idx % 256],
                         2, 6, to_be_bytes(thing.x)),
                  6, 10, to_be_bytes(thing.y))
      [] thing.tag = "None" -> [Zeros EXCEPT ![1] = 7]

\* App::ser_thing: Option<&ThingHappened> -> [u8; TURN_SIZE]
ser_thing(thing) ==
    CASE thing.tag = "FirstTurn" -> [Zeros EXCEPT ![1] = 1]
      [] thing.tag = "PrevTurn" -> [Zeros EXCEPT ![1] = 2]
      [] thing.tag = "NextTurn" -> [Zeros EXCEPT ![1] = 3]
      [] thing.tag = "LastTurn" -> [Zeros EXCEPT ![1] = 4]
      [] thing.tag = "Rotate" ->
           IF thing.idx > U8_MAX THEN SerPanic
           ELSE CopyIn([Zeros EXCEPT ![1] = 5, ![2] = thing.idx],
                       2, 6, to_be_bytes(thing.r))
      [] thing.tag = "Move" ->
           IF thing.idx > U8_MAX THEN SerPanic
           ELSE CopyIn(CopyIn([Zeros EXCEPT ![1] = 6, ![2] = thing.idx],
                              2, 6, to_be_bytes(thing.x)),
                       6, 10, to_be_bytes(thing.y))
      [] thing.tag = "None" -> [Zeros EXCEPT ![1] = 7]

\* thing[from..to], with Rust's 0-based half-open range
Slice(thing, from, to) == SubSeq(thing, from + 1, to)

\* a mutant of de_thing: y is read from the bytes of x
de_thing_yx(thing) ==
    CASE thing[1] = 1 -> [tag |-> "FirstTurn"]
      [] thing[1] = 2 -> [tag |-> "PrevTurn"]
      [] thing[1] = 3 -> [tag |-> "NextTurn"]
      [] thing[1] = 4 -> [tag |-> "LastTurn"]
      [] thing[1] = 5 ->
           RotateThing(thing[2], from_be_bytes(Slice(thing, 2, 6)))
      [] thing[1] = 6 ->
           MoveThing(thing[2], from_be_bytes(Slice(thing, 2, 6)),
                     from_be_bytes(Slice(thing, 2, 6)))
      [] thing[1] = 7 -> NoThing
      [] OTHER -> Malformed

\* a mutant of de_thing: an unknown tag is read as "no event"
de_thing_lenient(thing) ==
    CASE thing[1] = 1 -> [tag |-> "FirstTurn"]
      [] thing[1] = 2 -> [tag |-> "PrevTurn"]
      [] thing[1] = 3 -> [tag |-> "NextTurn"]
      [] thing[1] = 4 -> [tag |-> "LastTurn"]
      [] thing[1] = 5 ->
           RotateThing(thing[2], from_be_bytes(Slice(thing, 2, 6)))
      [] thing[1] = 6 ->
           MoveThing(thing[2], from_be_bytes(Slice(thing, 2, 6)),
                     from_be_bytes(Slice(thing, 6, 10)))
      [] OTHER -> NoThing

\* a mutant of de_thing: the "no event" tag is read as PrevTurn
de_thing_none_is_prev(thing) ==
    CASE thing[1] = 1 -> [tag |-> "FirstTurn"]
      [] thing[1] = 2 -> [tag |-> "PrevTurn"]
      [] thing[1] = 3 -> [tag |-> "NextTurn"]
      [] thing[1] = 4 -> [tag |-> "LastTurn"]
      [] thing[1] = 5 ->
           RotateThing(thing[2], from_be_bytes(Slice(thing, 2, 6)))
      [] thing[1] = 6 ->
           MoveThing(thing[2], from_be_bytes(Slice(thing, 2, 6)),
                     from_be_bytes(Slice(thing, 6, 10)))
      [] thing[1] = 7 -> [tag |-> "PrevTurn"]
      [] OTHER -> Malformed

\* App::de_thing: &[u8; TURN_SIZE] -> Option<ThingHappened>, or a panic
de_thing(thing) ==
    CASE thing[1] = 1 -> [tag |-> "FirstTurn"]
      [] thing[1] = 2 -> [tag |-> "PrevTurn"]
      [] thing[1] = 3 -> [tag |-> "NextTurn"]
      [] thing[1] = 4 -> [tag |-> "LastTurn"]
      [] thing[1] = 5 ->
           RotateThing(thing[2], from_be_bytes(Slice(thing, 2, 6)))
      [] thing[1] = 6 ->
           MoveThing(thing[2], from_be_bytes(Slice(thing, 2, 6)),
                     from_be_bytes(Slice(thing, 6, 10)))
      [] thing[1] = 7 -> NoThing
      [] OTHER -> Malformed

----------------------------------------------------------------------------
(* The engine, rotchess_core::RotchessEmulator, as the app uses it: a turn  *)
(* history with a cursor and a selection.  handle_event's report is an      *)
(* input of the model (r); the engine's rules are not part of this code.    *)

\* RotchessEmulator::with(pieces)
NewEngine(pieces) ==
    [pieces |-> pieces, turns |-> <<>>, cur |-> 0, selected |-> FALSE]

\* The board position an engine shows: its start layout and the turns up to
\* the cursor.
Board(c) == [pieces |-> c.pieces, applied |-> SubSeq(c.turns, 1, c.cur)]

NavEvent(tag) == [kind |-> tag]

NavEvents == {NavEvent(t) : t \in NavTags}

LEFT == "LEFT"

RIGHT == "RIGHT"

ButtonDown(x, y, button) ==
    [kind |-> "ButtonDown", x |-> x, y |-> y, button |-> button]

ButtonUp(x, y, button) ==
    [kind |-> "ButtonUp", x |-> x, y |-> y, button |-> button]

MouseMotion(x, y) == [kind |-> "MouseMotion", x |-> x, y |-> y]

RotateUnchecked(i, r) == [kind |-> "RotateUnchecked", idx |-> i, r |-> r]

MoveUnchecked(i, x, y) ==
    [kind |-> "MoveUnchecked", idx |-> i, x |-> x, y |-> y]

\* The mouse events the window hands over, at a point of the board.
MouseEvents == {ButtonUp(0, 0, LEFT), MouseMotion(0, 0)}

\* What key_down_event and the mouse handlers pass to try_send_event.
UserEvents == NavEvents \cup MouseEvents

\* The moves and rotations the engine reports in the runs.
PlayMoves == {MoveThing(255, 1119256167, -998637568)}

PlayRotates == {RotateThing(2, 1094034160)}

\* Where a navigation event puts the cursor.
NavCursor(c, kind) ==
    CASE kind = "FirstTurn" -> 0
      [] kind = "PrevTurn" -> IF c.cur > 0 THEN c.cur - 1 ELSE 0
      [] kind = "NextTurn" -> IF c.cur < Len(c.turns) THEN c.cur + 1 ELSE c.cur
      [] kind = "LastTurn" -> Len(c.turns)

\* A travel (move or rotation) drops the turns after the cursor and adds one.
Travel(c, thing) ==
    [c EXCEPT !.turns = Append(SubSeq(c.turns, 1, c.cur), thing),
              !.cur = c.cur + 1]

\* The reports handle_event may give for event e in engine state c.
EngineResults(c, e) ==
    CASE e.kind \in NavTags ->
            {[tag |-> e.kind]}
                \cup (IF NavCursor(c, e.kind) = c.cur THEN {NoThing} ELSE {})
      [] e.kind \in {"ButtonDown", "ButtonUp", "MouseMotion"} ->
            IF e.kind = "ButtonDown" /\ e.x = NARNIA
            THEN {NoThing}
            ELSE {NoThing} \cup PlayMoves \cup PlayRotates
      [] OTHER -> {NoThing}

\* RotchessEmulator::handle_event(e) reporting r: the engine afterwards.
handle_event(c, e, r) ==
    IF e.kind \in NavTags THEN [c EXCEPT !.cur = NavCursor(c, e.kind)]
    ELSE IF e.kind = "RotateUnchecked" THEN Travel(c, RotateThing(e.idx, e.r))
    ELSE IF e.kind = "MoveUnchecked" THEN Travel(c, MoveThing(e.idx, e.x, e.y))
    ELSE IF r.tag \in {"Move", "Rotate"}
         THEN [Travel(c, r) EXCEPT !.selected = TRUE]
    ELSE IF e.kind = "ButtonDown" THEN [c EXCEPT !.selected = (e.x # NARNIA)]
    ELSE c

----------------------------------------------------------------------------
(* The log of one handler call: the engine calls and the netcode traffic,   *)
(* in program order.                                                        *)

Call(e) == [t |-> "call", ev |-> e]

Send(buf) == [t |-> "send", buf |-> buf]

Recv(buf) == [t |-> "recv", buf |-> buf]

Calls(log) == SelectSeq(log, LAMBDA x : x.t = "call")

Sends(log) == SelectSeq(log, LAMBDA x : x.t = "send")

Recvs(log) == SelectSeq(log, LAMBDA x : x.t = "recv")

----------------------------------------------------------------------------
(* Local dispatch. *)

\* a mutant of CanSubmit: the ownership gate is left out
CanSubmit_always(mine) == TRUE

\* a mutant of CanSubmit: the gate is turned round
CanSubmit_negated(mine) == ~mine

\* try_send_event's gate: self.netcode.my_turn()
CanSubmit(mine) == mine

\* a mutant of Rejects: only a move in the rotation phase is refused
Rejects_move_only(phase, thing) == thing.tag = "Move" /\ phase = "Rotate"

\* The two "disallow" checks: a move in the rotation phase, a rotation in the
\* move phase.
Rejects(phase, thing) ==
    \/ thing.tag = "Move" /\ phase = "Rotate"
    \/ thing.tag = "Rotate" /\ phase = "Move"

\* a mutant of LocalPhase: an accepted move leaves the phase alone
LocalPhase_move_stays(phase, thing) ==
    IF thing.tag = "Rotate" THEN "Wait" ELSE phase

\* a mutant of LocalPhase: a navigation effect ends the turn like a rotation
LocalPhase_nav_waits(phase, thing) ==
    IF thing.tag = "Move" THEN "Rotate" ELSE "Wait"

\* The phase after an accepted local effect.
LocalPhase(phase, thing) ==
    IF thing.tag = "Move" THEN "Rotate"
    ELSE IF thing.tag = "Rotate" THEN "Wait"
    ELSE phase

\* The click "to narnia" that deselects the rotated piece.
Deselect == ButtonDown(NARNIA, NARNIA, RIGHT)

\* What one handler call leaves behind.
Outcome(c, phase, log, panic) ==
    [chess |-> c, turn_phase |-> phase, log |-> log, panic |-> panic]

\* a mutant of try_send_event: "nothing happened" is sent to the peer as well
try_send_event_sends_none(app, e, r) ==
    IF ~CanSubmit(app.my_turn)
    THEN Outcome(app.chess, app.turn_phase, <<>>, "no")
    ELSE
      LET c1 == handle_event(app.chess, e, r)
      IN IF r = NoThing
         THEN Outcome(c1, app.turn_phase, <<Call(e), Send(ser_thing(NoThing))>>, "no")
         ELSE IF Rejects(app.turn_phase, r)
         THEN Outcome(handle_event(c1, NavEvent("PrevTurn"), [tag |-> "PrevTurn"]),
                      app.turn_phase,
                      <<Call(e), Call(NavEvent("PrevTurn"))>>, "no")
         ELSE
           LET desel == r.tag = "Rotate" /\ app.debug
               c2 == IF desel THEN handle_event(c1, Deselect, NoThing) ELSE c1
               log1 == IF desel THEN <<Call(e), Call(Deselect)>> ELSE <<Call(e)>>
               phase1 == LocalPhase(app.turn_phase, r)
               buf == ser_thing(r)
           IN IF buf = SerPanic
              THEN Outcome(c2, phase1, log1, "ser")
              ELSE Outcome(c2, phase1, Append(log1, Send(buf)), "no")

\* App::try_send_event(e), the engine reporting r for e.
\* app: [chess, turn_phase, my_turn, debug]
try_send_event(app, e, r) ==
    IF ~CanSubmit(app.my_turn)
    THEN Outcome(app.chess, app.turn_phase, <<>>, "no")
    ELSE
      LET c1 == handle_event(app.chess, e, r)
      IN IF r = NoThing
         THEN Outcome(c1, app.turn_phase, <<Call(e)>>, "no")
         ELSE IF Rejects(app.turn_phase, r)
         THEN Outcome(handle_event(c1, NavEvent("PrevTurn"), [tag |-> "PrevTurn"]),
                      app.turn_phase,
                      <<Call(e), Call(NavEvent("PrevTurn"))>>, "no")
         ELSE
           LET desel == r.tag = "Rotate" /\ app.debug
               c2 == IF desel THEN handle_event(c1, Deselect, NoThing) ELSE c1
               log1 == IF desel THEN <<Call(e), Call(Deselect)>> ELSE <<Call(e)>>
               phase1 == LocalPhase(app.turn_phase, r)
               buf == ser_thing(r)
           IN IF buf = SerPanic
              THEN Outcome(c2, phase1, log1, "ser")
              ELSE Outcome(c2, phase1, Append(log1, Send(buf)), "no")

----------------------------------------------------------------------------
(* Remote reconciliation. *)

\* update's gate: !self.netcode.my_turn()
CanPoll(mine) == ~mine

\* a mutant of RemotePhase: a remote move already opens the move phase
RemotePhase_early(phase, thing) ==
    IF thing.tag \in {"Move", "Rotate"} THEN "Move" ELSE phase

\* The phase after a remote thing was applied.
RemotePhase(phase, thing) == IF thing.tag = "Rotate" THEN "Move" ELSE phase

\* a mutant of RemoteEvent: the coordinates of a remote move are swapped
RemoteEvent_swapped(thing) ==
    IF IsNav(thing) THEN NavEvent(thing.tag)
    ELSE IF thing.tag = "Rotate" THEN RotateUnchecked(thing.idx, thing.r)
    ELSE MoveUnchecked(thing.idx, thing.y, thing.x)

\* a mutant of RemoteEvent: a remote rotation is applied to the piece before
RemoteEvent_off_by_one(thing) ==
    IF IsNav(thing) THEN NavEvent(thing.tag)
    ELSE IF thing.tag = "Rotate"
         THEN RotateUnchecked(IF thing.idx > 0 THEN thing.idx - 1 ELSE 0, thing.r)
    ELSE MoveUnchecked(thing.idx, thing.x, thing.y)

\* The engine event update applies for a decoded thing.
RemoteEvent(thing) ==
    IF IsNav(thing) THEN NavEvent(thing.tag)
    ELSE IF thing.tag = "Rotate" THEN RotateUnchecked(thing.idx, thing.r)
    ELSE MoveUnchecked(thing.idx, thing.x, thing.y)

\* a mutant of Reply: a remote move is not acknowledged
Reply_never(thing) == <<>>

\* a mutant of Reply: a remote rotation is acknowledged too
Reply_always(thing) ==
    IF thing.tag \in {"Move", "Rotate"} THEN <<Send(ser_thing(NoThing))>> ELSE <<>>

\* a mutant of Reply: a remote navigation event is acknowledged like a move
Reply_acks_navigation(thing) ==
    IF thing.tag = "Move" \/ IsNav(thing) THEN <<Send(ser_thing(NoThing))>> ELSE <<>>

\* What update sends back once the thing is applied.
Reply(thing) ==
    IF thing.tag = "Move" THEN <<Send(ser_thing(NoThing))>> ELSE <<>>

\* a mutant of update: a poll that receives nothing sets the phase anew
update_idle_resets(app, box) ==
    IF ~CanPoll(app.my_turn) \/ box = <<>>
    THEN Outcome(app.chess, IF app.my_turn THEN "Move" ELSE "Wait", <<>>, "no")
    ELSE
      LET turn == Head(box)
          thing == de_thing(turn)
      IN IF thing = Malformed
         THEN Outcome(app.chess, app.turn_phase, <<Recv(turn)>>, "malformed")
         ELSE IF thing = NoThing
         THEN Outcome(app.chess, app.turn_phase, <<Recv(turn)>>, "no")
         ELSE IF thing.tag \in {"Move", "Rotate"} /\ app.turn_phase # "Wait"
         THEN Outcome(app.chess, app.turn_phase, <<Recv(turn)>>, "assert")
         ELSE Outcome(handle_event(app.chess, RemoteEvent(thing), NoThing),
                      RemotePhase(app.turn_phase, thing),
                      <<Recv(turn), Call(RemoteEvent(thing))>> \o Reply(thing),
                      "no")

\* App::update, box being what try_recv_turn can return.
\* app: [chess, turn_phase, my_turn, debug]
update(app, box) ==
    IF ~CanPoll(app.my_turn) \/ box = <<>>
    THEN Outcome(app.chess, app.turn_phase, <<>>, "no")
    ELSE
      LET turn == Head(box)
          thing == de_thing(turn)
      IN IF thing = Malformed
         THEN Outcome(app.chess, app.turn_phase, <<Recv(turn)>>, "malformed")
         ELSE IF thing = NoThing
         THEN Outcome(app.chess, app.turn_phase, <<Recv(turn)>>, "no")
         ELSE IF thing.tag \in {"Move", "Rotate"} /\ app.turn_phase # "Wait"
         THEN Outcome(app.chess, app.turn_phase, <<Recv(turn)>>, "assert")
         ELSE Outcome(handle_event(app.chess, RemoteEvent(thing), NoThing),
                      RemotePhase(app.turn_phase, thing),
                      <<Recv(turn), Call(RemoteEvent(thing))>> \o Reply(thing),
                      "no")

----------------------------------------------------------------------------
(* The netcode interface, sfn_tpn::NetcodeInterface: send_turn hands the    *)
(* turn over and gives up ownership, a successful try_recv_turn takes one   *)
(* buffer, in order, and takes ownership.                                   *)

\* my_turn() after the sends and receives of a handler call
MyTurnAfter(mine, log) ==
    IF Sends(log) # <<>> THEN FALSE
    ELSE IF Recvs(log) # <<>> THEN TRUE
    ELSE mine

\* the buffers a handler call passed to send_turn
SentBufs(log) == [k \in 1..Len(Sends(log)) |-> Sends(log)[k].buf]

\* The travel a peer is due to send next, after the sends of a handler call: a
\* turn is a move, then a rotation.
DueAfter(d, log) ==
    IF \E k \in 1..Len(Sends(log)) : Sends(log)[k].buf[1] = 6 THEN "Rotate"
    ELSE IF \E k \in 1..Len(Sends(log)) : Sends(log)[k].buf[1] = 5 THEN "Move"
    ELSE d

----------------------------------------------------------------------------
(* The two-peer system. *)

\* a mutant of InitialPhase: every peer starts in the move phase
InitialPhase_all_move(mine) == "Move"

\* App::new: Move for the peer whose turn it is, Wait for the other
InitialPhase(mine) == IF mine THEN "Move" ELSE "Wait"

\* ChessLayout::get_pieces
get_pieces(layout) == IF layout = "Standard" THEN "standard_board" ELSE "chess960_board"

App(p) ==
    [chess |-> chess[p], turn_phase |-> turn_phase[p], my_turn |-> my_turn[p],
     debug |-> debug_assertions]

\* The peer the netcode gives the first turn to.
FirstPeer == "A"

LastCall(op, p, r, log) ==
    [op |-> op, peer |-> p, r |-> r, phase0 |-> turn_phase[p],
     mine0 |-> my_turn[p], due0 |-> due[p], board0 |-> Board(chess[p]), log |-> log]

CodecIdle ==
    /\ c_in = NoThing
    /\ c_buf = <<>>
    /\ c_out = NoThing
    /\ c_buf2 = <<>>
    /\ c_pc = "idle"

ProtoInit ==
    /\ chess = [p \in Peers |-> NewEngine(get_pieces("Standard"))]
    /\ chess_layout = [p \in Peers |-> "Standard"]
    /\ my_turn = [p \in Peers |-> p = FirstPeer]
    /\ turn_phase = [p \in Peers |-> InitialPhase(my_turn[p])]
    /\ net = [p \in Peers |-> <<>>]
    /\ inbox = [p \in Peers |-> <<>>]
    /\ panicked = [p \in Peers |-> "no"]
    /\ debug_assertions \in BOOLEAN
    /\ due = [p \in Peers |-> "Move"]
    /\ last = [op |-> "new", peer |-> FirstPeer, r |-> NoThing,
               phase0 |-> "Wait", mine0 |-> FALSE, due0 |-> "Move",
               board0 |-> Board(NewEngine(get_pieces("Standard"))), log |-> <<>>]

Init == ProtoInit /\ CodecIdle

\* Every engine has room for one more turn.
Room == \A q \in Peers : chess[q].cur < MaxTurns

\* The effects of one handler call of peer p on the system.
Effects(p, op, r, out) ==
    /\ chess' = [chess EXCEPT ![p] = out.chess]
    /\ turn_phase' = [turn_phase EXCEPT ![p] = out.turn_phase]
    /\ my_turn' = [my_turn EXCEPT ![p] = MyTurnAfter(my_turn[p], out.log)]
    /\ inbox' = [inbox EXCEPT ![p] = IF Recvs(out.log) # <<>> THEN Tail(@) ELSE @]
    /\ net' = [net EXCEPT ![Other(p)] = @ \o SentBufs(out.log)]
    /\ panicked' = [panicked EXCEPT ![p] = out.panic]
    /\ due' = [due EXCEPT ![p] = DueAfter(@, out.log)]
    /\ last' = LastCall(op, p, r, out.log)
    /\ UNCHANGED <<chess_layout, debug_assertions>>

\* A key or mouse handler of peer p calls try_send_event(e); the engine, if
\* it is asked, reports r.
TrySendEvent(p, e, r) ==
    /\ panicked[p] = "no"
    /\ IF CanSubmit(my_turn[p])
       THEN /\ r \in EngineResults(chess[p], e)
            /\ r.tag \in {"Move", "Rotate"} => Room
       ELSE r = NoThing
    /\ Effects(p, "try_send_event", r, try_send_event(App(p), e, r))
    /\ UNCHANGED codecVars

\* The event loop of peer p calls update.
Update(p) ==
    /\ panicked[p] = "no"
    /\ Effects(p, "update", NoThing, update(App(p), inbox[p]))
    /\ UNCHANGED codecVars

\* The transport brings the next buffer on its way to peer p.
Deliver(p) ==
    /\ net[p] # <<>>
    /\ inbox' = [inbox EXCEPT ![p] = Append(@, Head(net[p]))]
    /\ net' = [net EXCEPT ![p] = Tail(@)]
    /\ UNCHANGED <<chess, chess_layout, turn_phase, my_turn, panicked,
                   debug_assertions, due, last>>
    /\ UNCHANGED codecVars

ResetKeys == {"9", "0", "r"}

\* key_down_event's layout for a reset key
KeyLayout(layout, key) ==
    IF key = "9" THEN "Chess960"
    ELSE IF key = "0" THEN "Standard"
    ELSE layout

\* key_down_event with '9', '0' or 'r': a fresh engine replaces the old one.
KeyReset(p, key) ==
    /\ panicked[p] = "no"
    /\ chess_layout' = [chess_layout EXCEPT ![p] = KeyLayout(@, key)]
    /\ chess' = [chess EXCEPT ![p] = NewEngine(get_pieces(KeyLayout(chess_layout[p], key)))]
    /\ last' = LastCall("key_down_event", p, NoThing, <<>>)
    /\ UNCHANGED <<turn_phase, my_turn, net, inbox, panicked, debug_assertions, due>>
    /\ UNCHANGED codecVars

AllThings == NavThings \cup PlayMoves \cup PlayRotates \cup {NoThing}

\* The handlers of peer p that the turn protocol is made of, and the transport.
Step(p) ==
    \/ \E e \in UserEvents, r \in AllThings : TrySendEvent(p, e, r)
    \/ Update(p)
    \/ Deliver(p)

Next == \E p \in Peers : Step(p)

Spec == Init /\ [][Next]_vars

\* The same with the reset keys.
NextKeys ==
    \E p \in Peers :
        \/ Step(p)
        \/ \E key \in ResetKeys : KeyReset(p, key)

SpecKeys == Init /\ [][NextKeys]_vars

----------------------------------------------------------------------------
(* A remote side that breaks the protocol: a buffer with an unknown tag.    *)

BadTags == {0, 9}

\* A malformed buffer waits in some inbox.
Pending == \E q \in Peers : inbox[q] # <<>> /\ de_thing(Head(inbox[q])) = Malformed

\* Some peer has read a malformed buffer.
Broken == \E q \in Peers : panicked[q] = "malformed"

\* Peer p waits for a turn and the transport holds a malformed buffer for it.
InjectMalformed(p, tag) ==
    /\ ~my_turn[p]
    /\ inbox[p] = <<>>
    /\ net[p] = <<>>
    /\ panicked[p] = "no"
    /\ inbox' = [inbox EXCEPT ![p] = <<[Zeros EXCEPT ![1] = tag]>>]
    /\ UNCHANGED <<chess, chess_layout, turn_phase, my_turn, net, panicked,
                   debug_assertions, due, last>>
    /\ UNCHANGED codecVars

\* Once the malformed buffer is in, only its receiver's poll is followed (what
\* the other peer does meanwhile cannot reach the receiver before it reads the
\* buffer), and the run ends with the session.
NextFault ==
    \E p \in Peers :
        \/ ~Pending /\ ~Broken /\ Step(p)
        \/ ~Pending /\ ~Broken /\ \E tag \in BadTags : InjectMalformed(p, tag)
        \/ Pending /\ inbox[p] # <<>> /\ Update(p)

SpecFault == Init /\ [][NextFault]_vars

----------------------------------------------------------------------------
(* Play by the rules: the owner moves in its move phase and rotates in its  *)
(* rotation phase, the event loops keep polling, the transport delivers.    *)

PlaySubmit(p) ==
    \E e \in MouseEvents :
        \E r \in (IF turn_phase[p] = "Move" THEN PlayMoves
                  ELSE IF turn_phase[p] = "Rotate" THEN PlayRotates
                  ELSE {}) :
            TrySendEvent(p, e, r)

\* Input that moves nothing: the engine reports no effect, or it is not p's turn.
PlayIdle(p) == \E e \in MouseEvents : TrySendEvent(p, e, NoThing)

NextPlay ==
    \E p \in Peers : PlaySubmit(p) \/ PlayIdle(p) \/ Update(p) \/ Deliver(p)

SpecPlay ==
    /\ Init
    /\ [][NextPlay]_vars
    /\ \A p \in Peers :
        WF_vars(PlaySubmit(p)) /\ WF_vars(Update(p)) /\ WF_vars(Deliver(p))

\* Sessions in which either peer may be the one the netcode lets begin (the
\* hosting process or the joining one), played by the rules.
InitNew ==
    /\ chess = [p \in Peers |-> NewEngine(get_pieces("Standard"))]
    /\ chess_layout = [p \in Peers |-> "Standard"]
    /\ \E first \in Peers : my_turn = [p \in Peers |-> p = first]
    /\ turn_phase = [p \in Peers |-> InitialPhase(my_turn[p])]
    /\ net = [p \in Peers |-> <<>>]
    /\ inbox = [p \in Peers |-> <<>>]
    /\ panicked = [p \in Peers |-> "no"]
    /\ debug_assertions \in BOOLEAN
    /\ due = [p \in Peers |-> "Move"]
    /\ last = [op |-> "new", peer |-> FirstPeer, r |-> NoThing,
               phase0 |-> "Wait", mine0 |-> FALSE, due0 |-> "Move",
               board0 |-> Board(NewEngine(get_pieces("Standard"))), log |-> <<>>]
    /\ CodecIdle

SpecNew == InitNew /\ [][NextPlay]_vars

----------------------------------------------------------------------------
(* Runs of the codec alone: ser_thing, de_thing of its result, ser_thing    *)
(* of that; or de_thing of a buffer with an unknown tag.                    *)

CodecInputs ==
    NavThings \cup {NoThing}
        \cup {RotateThing(i, r) : i \in PieceIdx \cup PieceIdxTooBig, r \in F32}
        \cup {MoveThing(i, x, y) :
                i \in PieceIdx \cup PieceIdxTooBig, x \in F32, y \in F32}

CodecInit ==
    /\ ProtoInit
    /\ debug_assertions = TRUE
    /\ c_in \in CodecInputs
    /\ c_buf = <<>>
    /\ c_out = NoThing
    /\ c_buf2 = <<>>
    /\ c_pc = "start"

CodecSer ==
    /\ c_pc = "start"
    /\ c_buf' = ser_thing(c_in)
    /\ c_pc' = IF ser_thing(c_in) = SerPanic THEN "panic" ELSE "ser"
    /\ UNCHANGED <<c_in, c_out, c_buf2>>
    /\ UNCHANGED protoVars

CodecDe ==
    /\ c_pc = "ser"
    /\ c_out' = de_thing(c_buf)
    /\ c_pc' = IF de_thing(c_buf) = Malformed THEN "panic" ELSE "de"
    /\ UNCHANGED <<c_in, c_buf, c_buf2>>
    /\ UNCHANGED protoVars

CodecReSer ==
    /\ c_pc = "de"
    /\ c_buf2' = ser_thing(c_out)
    /\ c_pc' = IF ser_thing(c_out) = SerPanic THEN "panic" ELSE "done"
    /\ UNCHANGED <<c_in, c_buf, c_out>>
    /\ UNCHANGED protoVars

NextCodec == CodecSer \/ CodecDe \/ CodecReSer

SpecCodec == CodecInit /\ [][NextCodec]_vars

----------------------------------------------------------------------------
(* What the last handler call was. *)

Submitted == last.op = "try_send_event"

\* The last call was a poll that took a buffer from the netcode.
Received == last.op = "update" /\ Recvs(last.log) # <<>>

ReceivedBuf == Recvs(last.log)[1].buf

ReceivedThing == de_thing(ReceivedBuf)

SentByLast == SentBufs(last.log)

CalledByLast == [k \in 1..Len(Calls(last.log)) |-> Calls(last.log)[k].ev]

InFlight == \E q \in Peers : net[q] # <<>> \/ inbox[q] # <<>>

----------------------------------------------------------------------------
(* The claims. *)

\* C1: whenever a poll decodes a remote Move or a remote Rotate, the polling
\* peer's turn phase is Wait at that moment (the two assert!s of update hold).
C1_RemoteTravelFindsWait ==
    (Received /\ ReceivedThing.tag \in {"Move", "Rotate"})
        => (last.phase0 = "Wait" /\ panicked[last.peer] # "assert")

\* C2: try_send_event called while my_turn() is false drops the event: no engine
\* call, the phase and the ownership stay, nothing is sent.
C2_DroppedWhenNotOwner ==
    (Submitted /\ ~last.mine0)
        => /\ last.log = <<>>
           /\ Board(chess[last.peer]) = last.board0
           /\ turn_phase[last.peer] = last.phase0
           /\ my_turn[last.peer] = last.mine0

C2_Witness ==
    /\ Submitted
    /\ ~last.mine0
    /\ last.phase0 = "Wait"
    /\ inbox[last.peer] # <<>>

\* The owner's submit met an effect of the wrong sub-phase.
WrongPhase ==
    /\ Submitted
    /\ last.mine0
    /\ \/ last.r.tag = "Rotate" /\ last.phase0 = "Move"
       \/ last.r.tag = "Move" /\ last.phase0 = "Rotate"

\* C3: an effect of the wrong sub-phase is rejected: after the event, exactly one
\* PrevTurn goes to the engine, which is back at the board position from before
\* the attempt; nothing is sent, the phase and the ownership stay.
C3_WrongPhaseRejected ==
    WrongPhase
        => /\ Len(CalledByLast) = 2
           /\ CalledByLast[1] \in UserEvents
           /\ CalledByLast[2] = NavEvent("PrevTurn")
           /\ Board(chess[last.peer]) = last.board0
           /\ SentByLast = <<>>
           /\ turn_phase[last.peer] = last.phase0
           /\ my_turn[last.peer]

C3_Witness ==
    /\ WrongPhase
    /\ last.r.tag = "Move"
    /\ last.phase0 = "Rotate"
    /\ Len(last.board0.applied) > 0

\* C4: the owner's Move effect in phase Move puts the phase to Rotate and sends
\* exactly one buffer, which decodes to that Move (same index, x and y).
C4_MoveAccepted ==
    (Submitted /\ last.mine0 /\ last.r.tag = "Move" /\ last.phase0 = "Move")
        => /\ turn_phase[last.peer] = "Rotate"
           /\ Len(SentByLast) = 1
           /\ de_thing(SentByLast[1]).tag = "Move"
           /\ de_thing(SentByLast[1]).idx = last.r.idx
           /\ de_thing(SentByLast[1]).x = last.r.x
           /\ de_thing(SentByLast[1]).y = last.r.y

C4_Witness ==
    /\ Submitted
    /\ last.mine0
    /\ last.r = MoveThing(255, 1119256167, -998637568)
    /\ last.phase0 = "Move"
    /\ net[Other(last.peer)] # <<>>

\* Peer p owns the turn in phase Move, the other peer waits, nothing is on its
\* way and every engine has room for a move and a rotation.
TurnStarts(p) ==
    /\ my_turn[p]
    /\ turn_phase[p] = "Move"
    /\ ~my_turn[Other(p)]
    /\ turn_phase[Other(p)] = "Wait"
    /\ ~InFlight
    /\ \A q \in Peers : chess[q].cur + 2 <= MaxTurns

\* Peer p has handed the turn over.
HandedOver(p) ==
    /\ turn_phase[p] = "Wait"
    /\ ~my_turn[p]
    /\ my_turn[Other(p)]
    /\ turn_phase[Other(p)] = "Move"

\* C5: from a peer owning the turn in phase Move with the other in Wait, a legal
\* Move and then a legal Rotate, with both peers polling and the transport
\* delivering, lead to: that peer in Wait without ownership, the other peer
\* owning the turn in phase Move.
C5_FullTurnCycle == \A p \in Peers : TurnStarts(p) ~> HandedOver(p)

C5_Witness ==
    /\ HandedOver("A")
    /\ Received
    /\ last.peer = "B"
    /\ ReceivedThing.tag = "Rotate"
    /\ chess["A"].cur = 2
    /\ Board(chess["B"]) = Board(chess["A"])

\* C6: a peer without ownership that polls and receives Move(index, x, y)
\* applies MoveUnchecked(index, x, y), stays in Wait and then, in the same poll,
\* sends exactly one buffer, which encodes None (tag 7).
C6_RemoteMoveAcknowledged ==
    (Received /\ ~last.mine0 /\ ReceivedThing.tag = "Move")
        => /\ Len(last.log) = 3
           /\ last.log[2] = Call(MoveUnchecked(ReceivedThing.idx,
                                               ReceivedThing.x, ReceivedThing.y))
           /\ last.log[3].t = "send"
           /\ last.log[3].buf[1] = 7
           /\ turn_phase[last.peer] = "Wait"

\* C7: a peer in phase Wait that polls and receives Rotate(index, angle) applies
\* RotateUnchecked(index, angle), goes to phase Move and sends nothing.
C7_RemoteRotateApplied ==
    (Received /\ last.phase0 = "Wait" /\ ReceivedThing.tag = "Rotate")
        => /\ CalledByLast = <<RotateUnchecked(ReceivedThing.idx, ReceivedThing.r)>>
           /\ Len(chess[last.peer].turns) > 0
           /\ chess[last.peer].turns[chess[last.peer].cur]
                = RotateThing(ReceivedThing.idx, ReceivedThing.r)
           /\ turn_phase[last.peer] = "Move"
           /\ SentByLast = <<>>

C7_Witness ==
    /\ Received
    /\ last.phase0 = "Wait"
    /\ ReceivedBuf = <<5, 2, 65, 53, 162, 240, 0, 0, 0, 0>>
    /\ turn_phase[last.peer] = "Move"

\* C8: codec round trip: for every event with an index in 0..255, and for None,
\* de_thing(ser_thing(e)) is e again (variant, index, float bits) and
\* serializing that gives the same bytes; no such run panics.
C8_RoundTrip ==
    /\ c_pc \in {"de", "done"} => c_out = c_in
    /\ c_pc = "done" => c_buf2 = c_buf
    /\ c_pc = "panic" => (c_in.tag \in {"Move", "Rotate"} /\ c_in.idx > 255)

C8_Witness ==
    /\ c_pc = "done"
    /\ c_in = MoveThing(255, 1119256167, -998637568)
    /\ c_out = c_in

\* The tag byte the wire format gives a variant.
WireTag(thing) ==
    CASE thing.tag = "FirstTurn" -> 1
      [] thing.tag = "PrevTurn" -> 2
      [] thing.tag = "NextTurn" -> 3
      [] thing.tag = "LastTurn" -> 4
      [] thing.tag = "Rotate" -> 5
      [] thing.tag = "Move" -> 6
      [] thing.tag = "None" -> 7

\* Bytes k+1..k+4 of buf (1-based) are the big-endian bytes of the bits f.
BigEndianAt(buf, k, f) ==
    /\ \A j \in 1..4 : buf[k + j] \in 0..255
    /\ f = (IF buf[k + 1] >= 128 THEN buf[k + 1] - 256 ELSE buf[k + 1]) * 16777216
             + buf[k + 2] * 65536 + buf[k + 3] * 256 + buf[k + 4]

\* C9: ser_thing's buffer has 10 bytes: the tag (1..7) in byte 0; for Rotate the
\* index in byte 1 and the big-endian angle in bytes 2-5; for Move the index in
\* byte 1, big-endian x in bytes 2-5 and y in bytes 6-9; zero everywhere else.
C9_WireLayout ==
    c_pc \in {"ser", "de", "done"}
        => /\ Len(c_buf) = 10
           /\ c_buf[1] = WireTag(c_in)
           /\ c_in.tag = "Rotate"
                => /\ c_buf[2] = c_in.idx
                   /\ BigEndianAt(c_buf, 2, c_in.r)
                   /\ \A k \in 7..10 : c_buf[k] = 0
           /\ c_in.tag = "Move"
                => /\ c_buf[2] = c_in.idx
                   /\ BigEndianAt(c_buf, 2, c_in.x)
                   /\ BigEndianAt(c_buf, 6, c_in.y)
           /\ c_in.tag \notin {"Rotate", "Move"}
                => \A k \in 2..10 : c_buf[k] = 0

C9_Witness ==
    /\ c_pc = "ser"
    /\ c_in = MoveThing(255, 1119256167, -998637568)
    /\ c_buf = <<6, 255, 66, 182, 126, 103, 196, 122, 0, 0>>

\* C10: a poll that receives a buffer whose tag is not in 1..7 panics: nothing
\* is applied to the engine, the phase stays and nothing is sent.
C10_FatalDecode ==
    (Received /\ ReceivedBuf[1] \notin 1..7)
        => /\ panicked[last.peer] = "malformed"
           /\ CalledByLast = <<>>
           /\ Board(chess[last.peer]) = last.board0
           /\ turn_phase[last.peer] = last.phase0
           /\ SentByLast = <<>>

C10_Witness ==
    /\ Received
    /\ ReceivedBuf[1] = 9
    /\ panicked[last.peer] = "malformed"
    /\ last.phase0 = "Wait"
    /\ Len(last.board0.applied) > 0

\* my_turn() of the last caller just before entry k of its log.
OwnedBefore(k) == MyTurnAfter(last.mine0, SubSeq(last.log, 1, k - 1))

\* C11: every send_turn of a handler call (the send of try_send_event, the
\* acknowledgment of update) happens while the caller's my_turn() is true.
C11_SendsOnlyWhenOwner ==
    \A k \in 1..Len(last.log) : last.log[k].t = "send" => OwnedBefore(k)

C11_Witness ==
    /\ Received
    /\ ~last.mine0
    /\ Len(last.log) = 3
    /\ last.log[3] = Send(ser_thing(NoThing))
    /\ OwnedBefore(3)
    /\ ~OwnedBefore(1)

\* C12: the owner's Rotate effect in phase Rotate: the engine gets the event and
\* then the deselecting click (right button down at (-1000, -1000)), which
\* reports nothing; after that exactly one buffer is sent, which decodes to that
\* Rotate (same index and angle), and the phase is Wait.
C12_RotateDeselectsThenSends ==
    (Submitted /\ last.mine0 /\ last.r.tag = "Rotate" /\ last.phase0 = "Rotate")
        => /\ Len(last.log) = 3
           /\ last.log[1].t = "call"
           /\ last.log[2] = Call(ButtonDown(-1000, -1000, RIGHT))
           /\ ~chess[last.peer].selected
           /\ last.log[3].t = "send"
           /\ de_thing(last.log[3].buf) = last.r
           /\ turn_phase[last.peer] = "Wait"
           /\ panicked[last.peer] = "no"

\* The last call was a submit that sent a Move or a Rotate buffer.
SentTravel ==
    /\ Submitted
    /\ SentByLast # <<>>
    /\ de_thing(SentByLast[1]).tag \in {"Move", "Rotate"}

\* C13: a peer's Move and Rotate buffers keep the sub-phase order: none is sent
\* from phase Wait, and each is the travel that is due (the first a Move, then
\* Rotate and Move in turn), whatever submits and polls come in between.
C13_TravelsAlternate ==
    SentTravel
        => /\ last.phase0 # "Wait"
           /\ de_thing(SentByLast[1]).tag = last.due0

\* C14: the owner's navigation effect (FirstTurn, PrevTurn, NextTurn, LastTurn)
\* leaves the phase as it is, whatever it is, and is sent: exactly one buffer,
\* with the effect's tag (1..4); only the ownership gates it.
C14_NavigationPassesThrough ==
    (Submitted /\ last.mine0 /\ IsNav(last.r))
        => /\ turn_phase[last.peer] = last.phase0
           /\ Len(SentByLast) = 1
           /\ SentByLast[1][1] \in 1..4
           /\ de_thing(SentByLast[1]) = last.r
           /\ CalledByLast = <<NavEvent(last.r.tag)>>

C14_Witness ==
    /\ Submitted
    /\ last.mine0
    /\ last.r = [tag |-> "PrevTurn"]
    /\ last.phase0 = "Rotate"
    /\ Len(last.board0.applied) > 0
    /\ SentByLast = <<[Zeros EXCEPT ![1] = 2]>>

\* C15: a poll that receives a None buffer (tag 7) leaves the phase as it is,
\* applies nothing to the engine and sends nothing; the mover that receives the
\* acknowledgment of its Move stays in phase Rotate.
C15_RemoteNoneIgnored ==
    (Received /\ ReceivedBuf[1] = 7)
        => /\ last.log = <<Recv(ReceivedBuf)>>
           /\ chess[last.peer].cur = Len(last.board0.applied)
           /\ Board(chess[last.peer]) = last.board0
           /\ turn_phase[last.peer] = last.phase0
           /\ panicked[last.peer] = "no"
           /\ last.due0 = "Rotate" => turn_phase[last.peer] = "Rotate"

C15_Witness ==
    /\ Received
    /\ ReceivedBuf = [Zeros EXCEPT ![1] = 7]
    /\ last.phase0 = "Rotate"
    /\ last.due0 = "Rotate"
    /\ turn_phase[last.peer] = "Rotate"
    /\ Len(last.board0.applied) = 1

\* C16: when the session is created a peer is in phase Move if my_turn() is
\* true and in Wait otherwise: one peer starts in Move, the other in Wait.
C16_InitialPhase ==
    last.op = "new"
        => /\ \A p \in Peers :
                turn_phase[p] = (IF my_turn[p] THEN "Move" ELSE "Wait")
           /\ \E p \in Peers :
                turn_phase[p] = "Move" /\ turn_phase[Other(p)] = "Wait"

C16_Witness ==
    /\ last.op = "new"
    /\ my_turn = [p \in Peers |-> p = "B"]
    /\ turn_phase["B"] = "Move"
    /\ turn_phase["A"] = "Wait"

\* The last call was a board reset ('9', '0' or 'r').
WasReset == last.op = "key_down_event"

\* C17: a board reset puts a fresh engine in place and sets the phase as at the
\* session's start: Move if the peer holds the ownership, Wait otherwise.
C17_ResetReinitializesPhase ==
    WasReset
        => /\ chess[last.peer] = NewEngine(get_pieces(chess_layout[last.peer]))
           /\ turn_phase[last.peer] = (IF my_turn[last.peer] THEN "Move" ELSE "Wait")

\* A step is a call of update by peer p.
PollBy(p) == last' # last /\ last'.op = "update" /\ last'.peer = p

\* C18: update does not block and is gated by the ownership: called by the owner,
\* or without a buffer to receive, it receives nothing and leaves the engine, the
\* phase, the ownership and the netcode as they are; no call takes more than one
\* buffer.
C18_PollNonBlocking ==
    [][\A p \in Peers :
        PollBy(p)
            => /\ (my_turn[p] \/ inbox[p] = <<>>)
                    => /\ last'.log = <<>>
                       /\ UNCHANGED <<chess, turn_phase, my_turn, net, inbox, panicked>>
               /\ Len(Recvs(last'.log)) <= 1
               /\ Len(inbox[p]) - Len(inbox'[p]) = Len(Recvs(last'.log))]_vars

C18_Witness ==
    /\ last.op = "update"
    /\ last.log = <<>>
    /\ ~last.mine0
    /\ last.phase0 = "Wait"
    /\ inbox[last.peer] = <<>>
    /\ net[last.peer] # <<>>

\* C19: the owner's submit for which the engine reports nothing (a mouse motion,
\* a click that selects nothing) is applied to the engine and that is all: the
\* phase and the ownership stay and nothing is sent.
C19_NoEffectNoSend ==
    (Submitted /\ last.mine0 /\ last.r = NoThing)
        => /\ Len(last.log) = 1
           /\ last.log[1].t = "call"
           /\ last.log[1].ev \in UserEvents
           /\ SentByLast = <<>>
           /\ turn_phase[last.peer] = last.phase0
           /\ my_turn[last.peer]

C19_Witness ==
    /\ Submitted
    /\ last.mine0
    /\ last.r = NoThing
    /\ last.log = <<Call(MouseMotion(0, 0))>>
    /\ last.phase0 = "Rotate"
    /\ my_turn[last.peer]

\* No assert!, no decode panic and no other abort has happened.
NoFailure == \A q \in Peers : panicked[q] = "no"

\* The buffers on their way to peer q, in the order update will get them.
Incoming(q) == inbox[q] \o net[q]

\* Peer q waits for the turn and the next buffer for it is one its update takes
\* without failing.
CanReceive(q) ==
    /\ ~my_turn[q]
    /\ Incoming(q) # <<>>
    /\ update(App(q), <<Head(Incoming(q))>>).panic = "no"

\* Peer p owns the turn and some input of its user gives an effect that
\* try_send_event accepts and sends.
CanOriginate(p) ==
    /\ my_turn[p]
    /\ \E e \in UserEvents :
            \E r \in EngineResults(chess[p], e) :
                Sends(try_send_event(App(p), e, r).log) # <<>>

\* C20: the protocol has no terminal state: as long as nothing has failed, a
\* buffer is under way that the waiting peer can receive, or the owner can make
\* an effect that is accepted and sent, so that the play can always go on.
C20_NoTerminalState ==
    NoFailure => \E p \in Peers : CanReceive(p) \/ CanOriginate(p)

\* The codec run's input is a Move or a Rotate whose index does not fit a u8.
IndexTooBig == c_in.tag \in {"Move", "Rotate"} /\ c_in.idx > 255

\* C21: ser_thing gives a buffer for every Move and Rotate with an index in
\* 0..255 (and for every other input), with that index in byte 1; for an index
\* above 255 it panics and gives no buffer, never one with a cut index byte.
C21_IndexChecked ==
    c_pc # "start"
        => /\ ~IndexTooBig
                => /\ c_pc # "panic"
                   /\ Len(c_buf) = TURN_SIZE
                   /\ c_in.tag \in {"Move", "Rotate"} => c_buf[2] = c_in.idx
           /\ IndexTooBig => (c_pc = "panic" /\ c_buf = SerPanic)

C21_Witness ==
    /\ c_pc = "panic"
    /\ c_in = RotateThing(256, 1094034160)
    /\ c_buf = SerPanic

\* C22: between handler calls a peer that holds the ownership is in phase Move
\* or Rotate, never in Wait (owner and Wait meet only inside the update that
\* receives a Move and acknowledges it).
C22_OwnerNeverWaits ==
    \A p \in Peers : my_turn[p] => turn_phase[p] \in {"Move", "Rotate"}

\* C23: at most one peer is in a phase other than Wait: the two peers are never
\* both in Move or Rotate.
C23_OneActivePeer ==
    \E p \in Peers : turn_phase[p] = "Wait"

\* The unchecked engine event that carries a received Move or Rotate.
Unchecked(thing) ==
    IF thing.tag = "Rotate" THEN RotateUnchecked(thing.idx, thing.r)
    ELSE MoveUnchecked(thing.idx, thing.x, thing.y)

\* C24: the two engines stay reconciled: every Move and Rotate a poll receives
\* is applied through the unchecked entry point with the payload the other peer
\* sent, and whenever no buffer is under way both engines show the same board
\* position, also after rejected actions, navigation events and board resets.
C24_EnginesReconciled ==
    /\ (Received /\ ReceivedThing.tag \in {"Move", "Rotate"}
            /\ panicked[last.peer] = "no")
            => CalledByLast = <<Unchecked(ReceivedThing)>>
    /\ (~InFlight /\ NoFailure)
            => Board(chess["A"]) = Board(chess["B"])

\* C25: a poll that receives a navigation event (FirstTurn, PrevTurn, NextTurn,
\* LastTurn) hands the same event to the engine's handle_event, leaves the phase
\* as it is and sends nothing back: the ownership the receive brought stays with
\* the receiver.
C25_RemoteNavigationApplied ==
    (Received /\ ReceivedBuf[1] \in 1..4)
        => /\ last.log = <<Recv(ReceivedBuf), Call(NavEvent(ReceivedThing.tag))>>
           /\ WireTag(ReceivedThing) = ReceivedBuf[1]
           /\ chess[last.peer].cur = NavCursor([cur |-> Len(last.board0.applied),
                                                turns |-> chess[last.peer].turns],
                                               ReceivedThing.tag)
           /\ turn_phase[last.peer] = last.phase0
           /\ ~last.mine0
           /\ my_turn[last.peer]
           /\ panicked[last.peer] = "no"

C25_Witness ==
    /\ Received
    /\ ReceivedBuf = [Zeros EXCEPT ![1] = 2]
    /\ last.phase0 = "Wait"
    /\ Len(last.board0.applied) = 2
    /\ chess[last.peer].cur = 1
    /\ my_turn[last.peer]

============================================================================
